---- MODULE Spec2Model ----
(***************************************************************************)
(* A model of the local-rcu slot (src/src/lib.rs): one Writer, any number  *)
(* of Readers, a published pointer `active`, a registry of per-reader      *)
(* epoch counters (`epochs`, a slab behind a mutex) and the retirement     *)
(* list `prevs`.  Every atomic load or store of shared memory is one step  *)
(* of the thread that performs it; the SeqCst fences of read() and         *)
(* write_nosync() make those steps take effect in program order.           *)
(*                                                                         *)
(* A value of T is identified with its allocation: the initial value is 0  *)
(* and the k-th value given to write/write_nosync is k, as in the tests.   *)
(***************************************************************************)
EXTENDS Integers, Sequences, FiniteSets, TLC

\* Bounds of the model.
MaxReaders == 2
MaxWrites == 2
MaxEpoch == 4

Readers == 1..MaxReaders
Values == 0..MaxWrites

VARIABLES
    active,     \* Shared::active, the published value
    torn,       \* TRUE once Shared has been dropped
    epoch,      \* epoch[r]: the AtomicUsize of reader r
    slab,       \* Shared::epochs: the slab's entries
    slabNext,   \* the slab's next vacant key
    lock,       \* the mutex around the slab: "free", "writer" or "reader"
    prevs,      \* Shared::prevs: <<[val, wits: <<[snap, r]>>]>>
    rpc,        \* rpc[r]: where reader r is
    rkey,       \* Reader::epoch_index
    rsrc,       \* who is creating reader r: 0 the Writer, s > 0 Reader s
    rdata,      \* ReadGuard::data of r's live guard
    rstart,     \* history: the value published when r's read() began
    rseen,      \* history: the value r's previous read() yielded
    wpc,        \* where the writer is
    wop,        \* the Writer method in progress
    wphase,     \* within write(): 1 first try_sync, 2 write_nosync, 3 second
    wprev,      \* write_nosync: prev
    wrem,       \* write_nosync: remaining_readers
    wk,         \* write_nosync: position of epochs.iter()
    ti,         \* try_sync: i
    tj,         \* try_sync: position of retain() in prevs[i].1
    tv,         \* try_sync: v
    wr,         \* write / sync: r
    given,      \* the number of values the caller has passed to write*
    lastOp,     \* history: the Writer method that returned last
    wret,       \* history: what it returned
    cstart,     \* history: at the last call, was every reader outside a
                \* critical section, and which values were retired
    under,      \* history: under[v] = the registered readers that have been
                \* inside one critical section since v was superseded
    handed,     \* history: handed[v] = times v was returned to the caller
    freed,      \* history: freed[v] = times v was dropped by Shared
    unfenced    \* history: what has taken effect against program order:
                \* rd, the Readers whose read() in progress loaded `active`
                \* before its epoch store; wr, the values retired by a
                \* write_nosync whose scan preceded its store

vars == <<active, torn, epoch, slab, slabNext, lock, prevs, rpc, rkey, rsrc,
          rdata, rstart, rseen, wpc, wop, wphase, wprev, wrem, wk, ti, tj,
          tv, wr, given, lastOp, wret, cstart, under, handed, freed,
          unfenced>>

rvars == <<rpc, rkey, rsrc, rdata, rstart, rseen>>
wlocals == <<wphase, wprev, wrem, wk, ti, tj, tv, wr>>
hist == <<given, lastOp, wret, cstart, under, handed, freed, unfenced>>

(***************************************************************************)
(* Helpers                                                                 *)
(***************************************************************************)
RemoveAt(s, i) == [k \in 1..(Len(s) - 1) |-> IF k < i THEN s[k] ELSE s[k + 1]]

Range(s) == {s[k] : k \in 1..Len(s)}

PrevVals == {prevs[k].val : k \in 1..Len(prevs)}

\* v & 1 != 0
LowBit(v) == v % 2 = 1

\* Mutant: read() stores the epoch back as it loaded it.
EnterEpochKeeps(v) == v

\* Reader::read: the value stored to announce entry, v | 1.
EnterEpoch(v) == IF LowBit(v) THEN v ELSE v + 1

\* Mutant: the guard's drop stores v + 3.
ExitEpochThree(v) == v + 3

\* ReadGuard::drop: the value stored to announce exit, v + 1.
ExitEpoch(v) == v + 1

\* Mutant: retain() keeps no witness.
RetainNone(snap, new) == FALSE

\* Mutant: retain() keeps every witness.
RetainAll(snap, new) == TRUE

\* try_sync: the closure of retain(): keep the witness iff new == *prev.
Retain(snap, new) == new = snap

\* Mutant: the scan tests the low bit the wrong way round.
WitnessedEven(v) == ~LowBit(v)

\* write_nosync: the scan records a witness iff v & 1 != 0.
Witnessed(v) == LowBit(v)

\* slab::Slab::insert: the key the next insert gets.
SlabInsert(s, next, r) ==
    IF next = Len(s) + 1
    THEN [entries |-> Append(s, [occ |-> TRUE, r |-> r]), next |-> next + 1]
    ELSE [entries |-> [s EXCEPT ![next] = [occ |-> TRUE, r |-> r]],
          next |-> s[next].r]

\* Mutant: remove() leaves the slab as it was.
SlabRemoveKeeps(s, next, key) == [entries |-> s, next |-> next]

\* slab::Slab::remove: the entry becomes vacant and heads the free list.
SlabRemove(s, next, key) ==
    [entries |-> [s EXCEPT ![key] = [occ |-> FALSE, r |-> next]], next |-> key]

Registered(r) == \E k \in 1..Len(slab) : slab[k].occ /\ slab[k].r = r

\* Holders of an Arc<Shared>: the Writer and every Reader not yet dropped.
LiveReaders == {r \in Readers : rpc[r] \notin {"none", "dropped"}}

\* A thread inside Writer::reader() or Reader::clone() of s (0: the Writer).
Creating(s) == \E r \in Readers : rpc[r] = "new_locked" /\ rsrc[r] = s

Inside(r) == LowBit(epoch[r])

\* The Reader has been returned by Reader::new and is not yet removed from
\* the registry by its Drop.
Constructed(r) ==
    rpc[r] \in {"idle", "entered", "guard", "panic", "drop_locked"}

\* The strong count of the Arc around r's epoch counter: the Reader's own
\* reference, the registry's, and one for each witness.
EpochRefs(r) ==
    (IF rpc[r] \in {"new_locked"} \/ Constructed(r) THEN 1 ELSE 0)
    + (IF Registered(r) THEN 1 ELSE 0)
    + Cardinality({c \in (1..Len(prevs)) \X (1..MaxReaders) :
                     /\ c[2] <= Len(prevs[c[1]].wits)
                     /\ prevs[c[1]].wits[c[2]].r = r})
    + Cardinality({k \in 1..Len(wrem) : wrem[k].r = r})

Init ==
    /\ active = 0
    /\ torn = FALSE
    /\ epoch = [r \in Readers |-> 0]
    /\ slab = <<[occ |-> TRUE, r |-> 1]>>
    /\ slabNext = 2
    /\ lock = "free"
    /\ prevs = <<>>
    /\ rpc = [r \in Readers |-> IF r = 1 THEN "idle" ELSE "none"]
    /\ rkey = [r \in Readers |-> IF r = 1 THEN 1 ELSE 0]
    /\ rsrc = [r \in Readers |-> 0]
    /\ rdata = [r \in Readers |-> 0]
    /\ rstart = [r \in Readers |-> 0]
    /\ rseen = [r \in Readers |-> 0]
    /\ wpc = "idle"
    /\ wop = "none"
    /\ wphase = 0
    /\ wprev = 0
    /\ wrem = <<>>
    /\ wk = 1
    /\ ti = 1
    /\ tj = 1
    /\ tv = <<>>
    /\ wr = <<>>
    /\ given = 0
    /\ lastOp = "none"
    /\ wret = <<>>
    /\ cstart = [quiet |-> TRUE, vals |-> <<>>, pinned |-> FALSE]
    /\ under = [v \in Values |-> {}]
    /\ handed = [v \in Values |-> 0]
    /\ freed = [v \in Values |-> 0]
    /\ unfenced = [rd |-> {}, wr |-> {}]

(***************************************************************************)
(* Shared                                                                  *)
(***************************************************************************)
\* Mutant: Drop for Shared frees `active` and forgets `prevs`.
SharedDropLeaks(last) ==
    IF last
    THEN /\ torn' = TRUE
         /\ freed' = [freed EXCEPT ![active] = @ + 1]
         /\ prevs' = <<>>
    ELSE UNCHANGED <<torn, freed, prevs>>

\* Arc<Shared>: the holder that drops the last reference runs Drop for
\* Shared, which frees `active`; the fields, `prevs` among them, follow.
SharedDrop(last) ==
    IF last
    THEN /\ torn' = TRUE
         /\ freed' = [v \in Values |->
                        freed[v] + (IF v = active THEN 1 ELSE 0)
                        + Cardinality({k \in 1..Len(prevs) : prevs[k].val = v})]
         /\ prevs' = <<>>
    ELSE UNCHANGED <<torn, freed, prevs>>

(***************************************************************************)
(* Reader                                                                  *)
(***************************************************************************)
\* Writer::reader() (s = 0) or Reader::clone() of s: Reader::new takes the
\* registry lock.  Reader ids are handed out in order.
NewLock(r, s) ==
    /\ rpc[r] = "none"
    /\ \A q \in Readers : q < r => rpc[q] # "none"
    /\ IF s = 0 THEN wpc = "idle" ELSE s \in Readers /\ rpc[s] = "idle"
    /\ lock = "free"
    /\ lock' = "reader"
    /\ rpc' = [rpc EXCEPT ![r] = "new_locked"]
    /\ rsrc' = [rsrc EXCEPT ![r] = s]
    /\ UNCHANGED <<active, torn, epoch, slab, slabNext, prevs, rkey, rdata,
                   rstart, rseen, wpc, wop, wlocals, hist>>

\* Reader::new: insert the fresh epoch counter, release the lock.
NewInsert(r) ==
    /\ rpc[r] = "new_locked"
    /\ LET s == SlabInsert(slab, slabNext, r) IN
        /\ slab' = s.entries
        /\ slabNext' = s.next
        /\ rkey' = [rkey EXCEPT ![r] = slabNext]
    /\ lock' = "free"
    /\ rpc' = [rpc EXCEPT ![r] = "idle"]
    /\ rsrc' = [rsrc EXCEPT ![r] = 0]
    /\ UNCHANGED <<active, torn, epoch, prevs, rdata, rstart, rseen, wpc, wop,
                   wlocals, hist>>

\* Reader::read, to the fence: load the epoch, assert its low bit is clear,
\* store v | 1.  A failed assertion panics.
ReadEnter(r) ==
    /\ rpc[r] = "idle"
    /\ ~Creating(r)
    /\ epoch[r] < MaxEpoch
    /\ IF LowBit(epoch[r])
       THEN /\ rpc' = [rpc EXCEPT ![r] = "panic"]
            /\ UNCHANGED <<epoch, rstart>>
       ELSE /\ epoch' = [epoch EXCEPT ![r] = EnterEpoch(epoch[r])]
            /\ rpc' = [rpc EXCEPT ![r] = "entered"]
            /\ rstart' = [rstart EXCEPT ![r] = active]
    /\ UNCHANGED <<active, torn, slab, slabNext, lock, prevs, rkey, rsrc,
                   rdata, rseen, wpc, wop, wlocals, hist>>

\* Mutant: the load yields the pointer the Writer retired last.
LoadRetired(r) == IF prevs # <<>> THEN prevs[Len(prevs)].val ELSE active

\* The pointer a read() obtains: the Acquire load of `active`.
LoadActive(r) == active

\* Mutant: read() takes the registry lock's turn before it loads `active`.
ReadLoadWaits(r) ==
    /\ rpc[r] = "entered"
    /\ lock = "free"
    /\ rdata' = [rdata EXCEPT ![r] = LoadActive(r)]
    /\ rpc' = [rpc EXCEPT ![r] = "guard"]
    /\ UNCHANGED <<active, torn, epoch, slab, slabNext, lock, prevs, rkey,
                   rsrc, rstart, rseen, wpc, wop, wlocals, hist>>

\* Reader::read, after the fence: load `active`, build the ReadGuard.
ReadLoad(r) ==
    /\ rpc[r] = "entered"
    /\ rdata' = [rdata EXCEPT ![r] = LoadActive(r)]
    /\ rpc' = [rpc EXCEPT ![r] = "guard"]
    /\ UNCHANGED <<active, torn, epoch, slab, slabNext, lock, prevs, rkey,
                   rsrc, rstart, rseen, wpc, wop, wlocals, hist>>

\* Drop for ReadGuard: load the epoch, assert its low bit is set, store v + 1.
GuardDrop(r) ==
    /\ rpc[r] = "guard"
    /\ LowBit(epoch[r])
    /\ epoch' = [epoch EXCEPT ![r] = ExitEpoch(epoch[r])]
    /\ rpc' = [rpc EXCEPT ![r] = "idle"]
    /\ rseen' = [rseen EXCEPT ![r] = rdata[r]]
    /\ rdata' = [rdata EXCEPT ![r] = 0]
    /\ rstart' = [rstart EXCEPT ![r] = 0]
    /\ under' = [v \in Values |-> under[v] \ {r}]
    /\ UNCHANGED <<active, torn, slab, slabNext, lock, prevs, rkey, rsrc,
                   wpc, wop, wlocals, given, lastOp, wret, cstart, handed,
                   freed>>
    /\ unfenced' = [unfenced EXCEPT !.rd = @ \ {r}]

\* mem::forget of the ReadGuard: its Drop never runs, the borrow of the
\* Reader ends, the epoch keeps its low bit.
GuardLeak(r) ==
    /\ rpc[r] = "guard"
    /\ rpc' = [rpc EXCEPT ![r] = "idle"]
    /\ rseen' = [rseen EXCEPT ![r] = rdata[r]]
    /\ rdata' = [rdata EXCEPT ![r] = 0]
    /\ rstart' = [rstart EXCEPT ![r] = 0]
    /\ UNCHANGED <<active, torn, epoch, slab, slabNext, lock, prevs, rkey,
                   rsrc, wpc, wop, wlocals, hist>>

\* Drop for Reader: take the registry lock (also when unwinding a panic).
DropLock(r) ==
    /\ rpc[r] \in {"idle", "panic"}
    /\ ~Creating(r)
    /\ lock = "free"
    /\ lock' = "reader"
    /\ rpc' = [rpc EXCEPT ![r] = "drop_locked"]
    /\ UNCHANGED <<active, torn, epoch, slab, slabNext, prevs, rkey, rsrc,
                   rdata, rstart, rseen, wpc, wop, wlocals, hist>>

\* Drop for Reader: remove the registry entry, release the lock, then drop
\* the fields: the Arc<Shared> among them.
DropRemove(r) ==
    /\ rpc[r] = "drop_locked"
    /\ LET s == SlabRemove(slab, slabNext, rkey[r]) IN
        /\ slab' = s.entries
        /\ slabNext' = s.next
    /\ lock' = "free"
    /\ rpc' = [rpc EXCEPT ![r] = "dropped"]
    /\ under' = [v \in Values |-> under[v] \ {r}]
    /\ SharedDrop(wpc = "dropped" /\ LiveReaders = {r})
    /\ UNCHANGED <<active, epoch, rkey, rsrc, rdata, rstart, rseen, wpc, wop,
                   wlocals, given, lastOp, wret, cstart, handed>>
    /\ UNCHANGED unfenced

(***************************************************************************)
(* Writer.  A step of the Writer is one access to shared memory (a load of *)
(* an epoch counter, the store of `active`, the lock, the unlock) together *)
(* with the work on its own data (`prevs`, its locals) that follows up to  *)
(* the next access.                                                        *)
(***************************************************************************)
\* try_sync, between two loads of epoch counters: the `while i < len` loop
\* from entry i, retain() at witness j, up to the next witness to examine
\* (done = FALSE) or the end of the list (done = TRUE).  An entry whose
\* witness list is empty is removed and its value pushed to v.
RECURSIVE TsRunSkips(_, _, _, _)
\* Mutant: after prevs.remove(i) the loop still does i += 1.
TsRunSkips(P, i, j, v) ==
    IF i > Len(P)
    THEN [P |-> P, i |-> i, j |-> j, v |-> v, done |-> TRUE]
    ELSE IF j <= Len(P[i].wits)
    THEN [P |-> P, i |-> i, j |-> j, v |-> v, done |-> FALSE]
    ELSE IF P[i].wits = <<>>
    THEN TsRunSkips(RemoveAt(P, i), i + 1, 1, Append(v, P[i].val))
    ELSE TsRunSkips(P, i + 1, 1, v)

RECURSIVE TsRun(_, _, _, _)
TsRun(P, i, j, v) ==
    IF i > Len(P)
    THEN [P |-> P, i |-> i, j |-> j, v |-> v, done |-> TRUE]
    ELSE IF j <= Len(P[i].wits)
    THEN [P |-> P, i |-> i, j |-> j, v |-> v, done |-> FALSE]
    ELSE IF P[i].wits = <<>>
    THEN TsRun(RemoveAt(P, i), i, 1, Append(v, P[i].val))
    ELSE TsRun(P, i + 1, 1, v)

\* A call returns `ret` to its caller, who owns the values from then on.
Return(op, ret) ==
    /\ wpc' = "idle"
    /\ wop' = "none"
    /\ lastOp' = op
    /\ wret' = ret
    /\ handed' = [v \in Values |->
                    handed[v] + Cardinality({k \in 1..Len(ret) : ret[k] = v})]
    /\ wphase' = 0 /\ wprev' = 0 /\ wrem' = <<>> /\ wk' = 1
    /\ ti' = 1 /\ tj' = 1 /\ tv' = <<>> /\ wr' = <<>>

\* Mutant: sync() returns after its first try_sync(), whatever is left.
TsDoneSyncOnce(op, phase, r, P, v) ==
    /\ prevs' = P
    /\ CASE op = "try_sync" -> Return(op, v)
         [] op = "write" /\ phase = 1 ->
              /\ wpc' = "publish"
              /\ wop' = op
              /\ wphase' = 2
              /\ wr' = v
              /\ ti' = 1 /\ tj' = 1 /\ tv' = <<>>
              /\ UNCHANGED <<wprev, wrem, wk, lastOp, wret, handed>>
         [] op = "write" /\ phase = 3 -> Return(op, r \o v)
         [] op = "sync" -> Return(op, r \o v)

\* try_sync has returned v, leaving P in prevs, to the user (try_sync), to
\* write() before or after write_nosync, or to the loop of sync().
TsDone(op, phase, r, P, v) ==
    /\ prevs' = P
    /\ CASE op = "try_sync" -> Return(op, v)
         [] op = "write" /\ phase = 1 ->
              /\ wpc' = "publish"
              /\ wop' = op
              /\ wphase' = 2
              /\ wr' = v
              /\ ti' = 1 /\ tj' = 1 /\ tv' = <<>>
              /\ UNCHANGED <<wprev, wrem, wk, lastOp, wret, handed>>
         [] op = "write" /\ phase = 3 -> Return(op, r \o v)
         [] op = "sync" ->
              IF P = <<>>
              THEN Return(op, r \o v)
              ELSE \* thread::yield_now() or r.extend(v); the next pass
                   /\ wpc' = "ts"
                   /\ wop' = op
                   /\ wr' = r \o v
                   /\ ti' = 1 /\ tj' = 1 /\ tv' = <<>>
                   /\ UNCHANGED <<wphase, wprev, wrem, wk, lastOp, wret,
                                  handed>>

\* try_sync is called with P in prevs: let mut v = Vec::new(); let mut i = 0;
TsBegin(op, phase, r, P) ==
    LET n == TsRun(P, 1, 1, <<>>) IN
    IF n.done
    THEN TsDone(op, phase, r, n.P, n.v)
    ELSE /\ prevs' = n.P
         /\ wpc' = "ts"
         /\ wop' = op
         /\ wphase' = phase
         /\ wr' = r
         /\ ti' = n.i /\ tj' = n.j /\ tv' = n.v
         /\ wprev' = 0 /\ wrem' = <<>> /\ wk' = 1
         /\ UNCHANGED <<lastOp, wret, handed>>

\* Writer::has_old_values()
has_old_values == prevs # <<>>

CanCall == wpc = "idle" /\ ~Creating(0)

\* What the history keeps of the state a sync() starts in; nothing for
\* the other calls.
NoCall == [quiet |-> TRUE, vals |-> <<>>, pinned |-> FALSE]

AtCall ==
    [quiet |-> \A r \in Readers : ~Inside(r),
     vals |-> [k \in 1..Len(prevs) |-> prevs[k].val],
     pinned |-> \E k \in 1..Len(prevs) : prevs[k].wits # <<>>]

\* Writer::write(val): the first try_sync().
WriteCall ==
    /\ CanCall
    /\ given < MaxWrites
    /\ given' = given + 1
    /\ cstart' = NoCall
    /\ TsBegin("write", 1, <<>>, prevs)
    /\ UNCHANGED <<active, torn, epoch, slab, slabNext, lock, rvars, under,
                   freed>>
    /\ UNCHANGED unfenced

\* Writer::write_nosync(val) called by the user.
WriteNosyncCall ==
    /\ CanCall
    /\ given < MaxWrites
    /\ given' = given + 1
    /\ cstart' = NoCall
    /\ wop' = "write_nosync"
    /\ wphase' = 2
    /\ wpc' = "publish"
    /\ UNCHANGED <<active, torn, epoch, slab, slabNext, lock, prevs, rvars,
                   wprev, wrem, wk, ti, tj, tv, wr, lastOp, wret, under,
                   handed, freed>>
    /\ UNCHANGED unfenced

\* Writer::try_sync() called by the user.
TrySyncCall ==
    /\ CanCall
    /\ cstart' = NoCall
    /\ TsBegin("try_sync", 0, <<>>, prevs)
    /\ UNCHANGED <<active, torn, epoch, slab, slabNext, lock, rvars, given,
                   under, freed>>
    /\ UNCHANGED unfenced

\* Writer::sync() called by the user: while !self.prevs().is_empty() ...
SyncCall ==
    /\ CanCall
    /\ cstart' = AtCall
    /\ IF prevs = <<>>
       THEN Return("sync", <<>>) /\ UNCHANGED prevs
       ELSE TsBegin("sync", 0, <<>>, prevs)
    /\ UNCHANGED <<active, torn, epoch, slab, slabNext, lock, rvars, given,
                   under, freed>>
    /\ UNCHANGED unfenced

\* Mutant: try_sync waits at a witness until its Reader has moved on.
TsWitnessWaits ==
    /\ wpc = "ts"
    /\ ~Retain(prevs[ti].wits[tj].snap, epoch[prevs[ti].wits[tj].r])
    /\ LET n == TsRun([prevs EXCEPT ![ti].wits = RemoveAt(@, tj)], ti, tj, tv)
       IN IF n.done
          THEN TsDone(wop, wphase, wr, n.P, n.v)
          ELSE /\ prevs' = n.P
               /\ ti' = n.i /\ tj' = n.j /\ tv' = n.v
               /\ UNCHANGED <<wpc, wop, wphase, wprev, wrem, wk, wr, lastOp,
                              wret, handed>>
    /\ UNCHANGED <<active, torn, epoch, slab, slabNext, lock, rvars, given,
                   cstart, under, freed>>
    /\ UNCHANGED unfenced

\* try_sync, inside retain(): load one witness's epoch counter and keep the
\* witness iff the counter still holds the sampled value; then on to the
\* next witness, or out of try_sync.
TsWitness ==
    /\ wpc = "ts"
    /\ LET w == prevs[ti].wits[tj]
           n == IF Retain(w.snap, epoch[w.r])
                THEN TsRun(prevs, ti, tj + 1, tv)
                ELSE TsRun([prevs EXCEPT ![ti].wits = RemoveAt(@, tj)],
                           ti, tj, tv)
       IN IF n.done
          THEN TsDone(wop, wphase, wr, n.P, n.v)
          ELSE /\ prevs' = n.P
               /\ ti' = n.i /\ tj' = n.j /\ tv' = n.v
               /\ UNCHANGED <<wpc, wop, wphase, wprev, wrem, wk, wr, lastOp,
                              wret, handed>>
    /\ UNCHANGED <<active, torn, epoch, slab, slabNext, lock, rvars, given,
                   cstart, under, freed>>
    /\ UNCHANGED unfenced

\* Mutant: write_nosync keeps the new value, not the old one, as `prev`.
WnPublishRetiresNew ==
    /\ wpc = "publish"
    /\ wprev' = given
    /\ active' = given
    /\ wpc' = "lock"
    /\ under' = [under EXCEPT
                   ![active] = {r \in Readers : Registered(r) /\ Inside(r)}]
    /\ UNCHANGED <<torn, epoch, slab, slabNext, lock, prevs, rvars, wop,
                   wphase, wrem, wk, ti, tj, tv, wr, given, lastOp, wret,
                   cstart, handed, freed>>
    /\ UNCHANGED unfenced

\* write_nosync: prev = active.load(Relaxed); active.store(val, Release);
\* fence(SeqCst).
WnPublish ==
    /\ wpc = "publish"
    /\ wprev' = active
    /\ active' = given
    /\ wpc' = "lock"
    /\ under' = [under EXCEPT
                   ![active] = {r \in Readers : Registered(r) /\ Inside(r)}]
    /\ UNCHANGED <<torn, epoch, slab, slabNext, lock, prevs, rvars, wop,
                   wphase, wrem, wk, ti, tj, tv, wr, given, lastOp, wret,
                   cstart, handed, freed>>
    /\ UNCHANGED unfenced

\* write_nosync: self.shared.epochs.lock()
WnLock ==
    /\ wpc = "lock"
    /\ lock = "free"
    /\ lock' = "writer"
    /\ wrem' = <<>>
    /\ wk' = 1
    /\ wpc' = "scan"
    /\ UNCHANGED <<active, torn, epoch, slab, slabNext, prevs, rvars, wop,
                   wphase, wprev, ti, tj, tv, wr, hist>>

\* write_nosync: one turn of `for (_, epoch) in epochs.iter()`.
WnScan ==
    /\ wpc = "scan"
    /\ wk <= Len(slab)
    /\ wrem' = IF slab[wk].occ /\ Witnessed(epoch[slab[wk].r])
               THEN Append(wrem, [snap |-> epoch[slab[wk].r], r |-> slab[wk].r])
               ELSE wrem
    /\ wk' = wk + 1
    /\ UNCHANGED <<active, torn, epoch, slab, slabNext, lock, prevs, rvars,
                   wpc, wop, wphase, wprev, ti, tj, tv, wr, hist>>

\* Mutant: write() returns after write_nosync, without its second try_sync().
WnUnlockNoSync ==
    /\ wpc = "scan"
    /\ wk > Len(slab)
    /\ lock' = "free"
    /\ prevs' = Append(prevs, [val |-> wprev, wits |-> wrem])
    /\ Return(wop, wr)
    /\ UNCHANGED <<active, torn, epoch, slab, slabNext, rvars, given, cstart,
                   under, freed>>
    /\ UNCHANGED unfenced

\* write_nosync: the scan is over, the lock guard goes out of scope, and
\* prevs.push((prev, remaining_readers)).  Back in write(), the second
\* try_sync() follows.
WnUnlock ==
    /\ wpc = "scan"
    /\ wk > Len(slab)
    /\ lock' = "free"
    /\ LET P == Append(prevs, [val |-> wprev, wits |-> wrem]) IN
         IF wop = "write"
         THEN TsBegin("write", 3, wr, P)
         ELSE prevs' = P /\ Return("write_nosync", <<>>)
    /\ UNCHANGED <<active, torn, epoch, slab, slabNext, rvars, given, cstart,
                   under, freed>>
    /\ UNCHANGED unfenced

\* Mutant: dropping the Writer frees the retirement list there and then.
WriterDropFreesPrevs ==
    /\ CanCall
    /\ wpc' = "dropped"
    /\ torn' = (LiveReaders = {})
    /\ freed' = [v \in Values |->
                   freed[v] + (IF v = active /\ LiveReaders = {} THEN 1 ELSE 0)
                   + Cardinality({k \in 1..Len(prevs) : prevs[k].val = v})]
    /\ prevs' = <<>>
    /\ UNCHANGED <<active, epoch, slab, slabNext, lock, rvars, wop, wlocals,
                   given, lastOp, wret, cstart, under, handed>>
    /\ UNCHANGED unfenced

\* The Writer is dropped: it has no Drop of its own, its Arc<Shared> goes.
WriterDrop ==
    /\ CanCall
    /\ wpc' = "dropped"
    /\ SharedDrop(LiveReaders = {})
    /\ UNCHANGED <<active, epoch, slab, slabNext, lock, rvars, wop, wlocals,
                   given, lastOp, wret, cstart, under, handed>>
    /\ UNCHANGED unfenced

WriterStep == TsWitness \/ WnPublish \/ WnLock \/ WnScan \/ WnUnlock

Next ==
    \/ \E r \in Readers : \E s \in 0..MaxReaders : NewLock(r, s)
    \/ \E r \in Readers : NewInsert(r)
    \/ \E r \in Readers : ReadEnter(r)
    \/ \E r \in Readers : ReadLoad(r)
    \/ \E r \in Readers : GuardDrop(r)
    \/ \E r \in Readers : GuardLeak(r)
    \/ \E r \in Readers : DropLock(r)
    \/ \E r \in Readers : DropRemove(r)
    \/ WriteCall
    \/ WriteNosyncCall
    \/ TrySyncCall
    \/ SyncCall
    \/ TsWitness
    \/ WnPublish
    \/ WnLock
    \/ WnScan
    \/ WnUnlock
    \/ WriterDrop

Spec == Init /\ [][Next]_vars

(***************************************************************************)
(* Scenario S4: one Reader, which reads once; the producer calls write(1)  *)
(* and, once the consumer has dropped its guard, write(2), then try_sync().*)
(* The consumer's thread ends after its read, as in the tests, and its     *)
(* Reader is dropped with it.                                              *)
(***************************************************************************)
S4Write == WriteCall /\ given < 2 /\ (given = 1 => epoch[1] = 2)

S4TrySync == TrySyncCall /\ given = 2 /\ lastOp = "write"

S4Read == ReadEnter(1) /\ epoch[1] = 0

S4Exit == DropLock(1) /\ epoch[1] = 2

S4Next ==
    \/ S4Write
    \/ S4TrySync
    \/ S4Read
    \/ S4Exit
    \/ ReadLoad(1)
    \/ GuardDrop(1)
    \/ DropRemove(1)
    \/ TsWitness
    \/ WnPublish
    \/ WnLock
    \/ WnScan
    \/ WnUnlock

SpecS4 == Init /\ [][S4Next]_vars

(***************************************************************************)
(* The tests' producer and consumers (tests/a.rs, tests/loom.rs): the      *)
(* producer calls write(1), write(2), ..; Readers are cloned and each      *)
(* calls read() and drops the guard, again and again.  Every thread that   *)
(* can take a step eventually takes one.                                   *)
(***************************************************************************)
LiveNext ==
    \/ \E r \in Readers : \E s \in Readers : NewLock(r, s)
    \/ \E r \in Readers : NewInsert(r)
    \/ \E r \in Readers : ReadEnter(r)
    \/ \E r \in Readers : ReadLoad(r)
    \/ \E r \in Readers : GuardDrop(r)
    \/ WriteCall
    \/ TsWitness
    \/ WnPublish
    \/ WnLock
    \/ WnScan
    \/ WnUnlock

Fairness ==
    /\ \A r \in Readers :
        /\ WF_vars(NewInsert(r))
        /\ WF_vars(ReadEnter(r))
        /\ WF_vars(ReadLoad(r))
        /\ WF_vars(GuardDrop(r))
    /\ WF_vars(WriterStep)

LiveSpec == Init /\ [][LiveNext]_vars /\ Fairness

(***************************************************************************)
(* The orderings weakened.  The fence of read() keeps the epoch store      *)
(* (Relaxed) ahead of the load of `active`; the fence of write_nosync      *)
(* keeps the store of `active` ahead of the loads of the scan.  Without a  *)
(* fence a store may take effect after a later load of another location.   *)
(* The steps below are those executions: the later load first, the store   *)
(* after it.  The history `unfenced` records each of them.  The threads    *)
(* are the tests': cloned Readers that read and drop their guards, a       *)
(* producer that calls write_nosync and try_sync.                          *)
(***************************************************************************)
\* Reader::read without its fence: the epoch is loaded and asserted even,
\* and the load of `active` takes effect before the epoch store.
ReadLoadEarly(r) ==
    /\ rpc[r] = "idle"
    /\ ~Creating(r)
    /\ epoch[r] < MaxEpoch
    /\ ~LowBit(epoch[r])
    /\ rdata' = [rdata EXCEPT ![r] = LoadActive(r)]
    /\ rstart' = [rstart EXCEPT ![r] = active]
    /\ rpc' = [rpc EXCEPT ![r] = "loaded"]
    /\ unfenced' = [unfenced EXCEPT !.rd = @ \cup {r}]
    /\ UNCHANGED <<active, torn, epoch, slab, slabNext, lock, prevs, rkey,
                   rsrc, rseen, wpc, wop, wlocals, given, lastOp, wret,
                   cstart, under, handed, freed>>

\* Reader::read without its fence: the epoch store takes effect; read()
\* returns the ReadGuard.
ReadEnterLate(r) ==
    /\ rpc[r] = "loaded"
    /\ epoch' = [epoch EXCEPT ![r] = EnterEpoch(epoch[r])]
    /\ rpc' = [rpc EXCEPT ![r] = "guard"]
    /\ UNCHANGED <<active, torn, slab, slabNext, lock, prevs, rkey, rsrc,
                   rdata, rstart, rseen, wpc, wop, wlocals, hist>>

\* write_nosync without its fence: prev is loaded, the lock is taken and the
\* scan begins while the store of `active` has not taken effect.
WnLockEarly ==
    /\ wpc = "publish"
    /\ lock = "free"
    /\ lock' = "writer"
    /\ wprev' = active
    /\ wrem' = <<>>
    /\ wk' = 1
    /\ wpc' = "scan_early"
    /\ unfenced' = [unfenced EXCEPT !.wr = @ \cup {active}]
    /\ UNCHANGED <<active, torn, epoch, slab, slabNext, prevs, rvars, wop,
                   wphase, ti, tj, tv, wr, given, lastOp, wret, cstart,
                   under, handed, freed>>

\* write_nosync without its fence: one turn of the scan, ahead of the store.
WnScanEarly ==
    /\ wpc = "scan_early"
    /\ wk <= Len(slab)
    /\ wrem' = IF slab[wk].occ /\ Witnessed(epoch[slab[wk].r])
               THEN Append(wrem, [snap |-> epoch[slab[wk].r], r |-> slab[wk].r])
               ELSE wrem
    /\ wk' = wk + 1
    /\ UNCHANGED <<active, torn, epoch, slab, slabNext, lock, prevs, rvars,
                   wpc, wop, wphase, wprev, ti, tj, tv, wr, hist>>

\* write_nosync without its fence: the store of `active` takes effect after
\* the scan; the unlock and the push follow.
WnPublishLate ==
    /\ wpc = "scan_early"
    /\ wk > Len(slab)
    /\ active' = given
    /\ wpc' = "scan"
    /\ under' = [under EXCEPT
                   ![active] = {r \in Readers : Registered(r) /\ Inside(r)}]
    /\ UNCHANGED <<torn, epoch, slab, slabNext, lock, prevs, rvars, wop,
                   wphase, wprev, wrem, wk, ti, tj, tv, wr, given, lastOp,
                   wret, cstart, handed, freed, unfenced>>

ReorderedNext ==
    \/ \E r \in Readers : \E s \in Readers : NewLock(r, s)
    \/ \E r \in Readers : NewInsert(r)
    \/ \E r \in Readers : ReadEnter(r)
    \/ \E r \in Readers : ReadLoad(r)
    \/ \E r \in Readers : GuardDrop(r)
    \/ \E r \in Readers : ReadLoadEarly(r)
    \/ \E r \in Readers : ReadEnterLate(r)
    \/ WriteNosyncCall
    \/ TrySyncCall
    \/ TsWitness
    \/ WnPublish
    \/ WnLock
    \/ WnScan
    \/ WnUnlock
    \/ WnLockEarly
    \/ WnScanEarly
    \/ WnPublishLate

SpecReordered == Init /\ [][ReorderedNext]_vars

(***************************************************************************)
(* Properties                                                              *)
(***************************************************************************)
Held(r) == rpc[r] = "guard"

\* write_nosync holds v as `prev`: superseded, not yet pushed to prevs.
Retiring(v) == wpc \in {"lock", "scan"} /\ wprev = v

\* C1, as claimed. No use-after-free: the value a live ReadGuard borrows is
\* the published value or an entry of the retirement list; it is not in a Vec
\* the Writer is about to return, has not been returned to the caller and is
\* not freed.
C1_PublishedOrRetired ==
    \A r \in Readers : Held(r) =>
        /\ ~torn
        /\ rdata[r] = active \/ rdata[r] \in PrevVals
        /\ rdata[r] \notin Range(tv) \cup Range(wr)
        /\ handed[rdata[r]] = 0
        /\ freed[rdata[r]] = 0

\* C1, amended. No use-after-free: the value a live ReadGuard borrows is the
\* published value, an entry of the retirement list, or the `prev` of the
\* write_nosync in progress (superseded, on its way into the list); it is not
\* in a Vec the Writer is about to return, has not been returned to the
\* caller and is not freed.
C1_NoUseAfterFree ==
    \A r \in Readers : Held(r) =>
        /\ ~torn
        /\ rdata[r] = active \/ rdata[r] \in PrevVals \/ Retiring(rdata[r])
        /\ rdata[r] \notin Range(tv) \cup Range(wr)
        /\ handed[rdata[r]] = 0
        /\ freed[rdata[r]] = 0

\* A guard borrows a retired value while the Writer has handed another back.
C1_Witness ==
    \E r \in Readers :
        /\ Held(r)
        /\ rdata[r] # active
        /\ rdata[r] \in PrevVals
        /\ \E v \in Values : handed[v] = 1

\* C2. Monotone observation: the Writer writes 1, 2, ..; the value a read()
\* yields is never smaller than the one the same Reader's previous read()
\* yielded.
C2_MonotoneReads ==
    \A r \in Readers : Held(r) => rseen[r] <= rdata[r]

\* A Reader's second read() yields a later value than its first.
C2_Witness ==
    \E r \in Readers : Held(r) /\ epoch[r] = 3 /\ rseen[r] < rdata[r]

\* C9. Recent-version reads: the value a read() yields was given to the slot
\* (0..given), and is not older than the value published when the call began
\* nor newer than the one published when it is observed.
C9_RecentVersion ==
    \A r \in Readers : Held(r) =>
        /\ rdata[r] \in 0..given
        /\ rstart[r] <= rdata[r]
        /\ rdata[r] <= active

\* A read() yields a value published after the call began.
C9_Witness ==
    \E r \in Readers : Held(r) /\ rstart[r] < rdata[r]

Vals(P) == [k \in 1..Len(P) |-> P[k].val]

\* The number of witnesses in P.
Pins(P) ==
    Cardinality({c \in (1..Len(P)) \X (1..MaxReaders) :
                    c[2] <= Len(P[c[1]].wits)})

\* C4. Reclamation completeness: a sync() called when no Reader is inside a
\* critical section drops a witness with every epoch counter it loads, stays
\* in its first pass over the list, and returns exactly the values that were
\* retired when it was called, leaving the list empty.
C4_Step ==
    /\ (SyncCall /\ AtCall.quiet) \/ (wop = "sync" /\ cstart.quiet /\ TsWitness)
         => IF wop' = "none"
            THEN lastOp' = "sync" /\ wret' = cstart'.vals /\ prevs' = <<>>
            ELSE /\ wop' = "sync"
                 /\ wr' = <<>>
                 /\ tv' \o Vals(prevs') = cstart'.vals
    /\ wop = "sync" /\ cstart.quiet /\ TsWitness => Pins(prevs') < Pins(prevs)

C4_SyncReclaimsAll == [][C4_Step]_vars

\* A sync() called in a quiescent system has returned two retired values,
\* of which at least one still had a witness when it was called.
C4_Witness ==
    /\ lastOp = "sync"
    /\ wop = "none"
    /\ cstart.quiet
    /\ cstart.pinned
    /\ Len(cstart.vals) = 2
    /\ wret = cstart.vals
    /\ prevs = <<>>

\* C5. Exactly-once release: no value is released twice (returned to the
\* caller or freed), and once the Writer and all Readers are dropped every
\* value given to the slot (0..given) has been released exactly once.
C5_ReleasedOnce ==
    /\ \A v \in Values : handed[v] + freed[v] <= 1
    /\ wpc = "dropped" /\ LiveReaders = {} =>
         \A v \in Values : handed[v] + freed[v] = IF v <= given THEN 1 ELSE 0

\* tests/no_leak.rs: everything is dropped, two values were pinned in the
\* retirement list to the end and are freed with the published one.
C5_Witness ==
    /\ wpc = "dropped"
    /\ LiveReaders = {}
    /\ given = 2
    /\ \A v \in Values : freed[v] = 1

\* C6. Pinning under a held guard: while a registered Reader stays inside the
\* critical section it was in when v was superseded, v is not returned by any
\* call nor freed; once write_nosync has pushed it, v is in the retirement
\* list with a witness of that Reader at its current epoch (so that
\* has_old_values() is true).
C6_PinnedWhileInside ==
    \A v \in Values : \A r \in under[v] :
        /\ handed[v] = 0
        /\ freed[v] = 0
        /\ v \notin Range(tv) \cup Range(wr)
        /\ \/ Retiring(v)
           \/ /\ prevs # <<>>
              /\ \E k \in 1..Len(prevs) :
                    /\ prevs[k].val = v
                    /\ [snap |-> epoch[r], r |-> r] \in Range(prevs[k].wits)

\* Scenario S5: a guard is leaked, the value it pinned was superseded by the
\* second write, and a try_sync() has returned nothing.
C6_Witness ==
    \E r \in Readers :
        /\ rpc[r] = "idle"
        /\ Inside(r)
        /\ r \in under[1]
        /\ given = 2
        /\ lastOp = "try_sync"
        /\ wop = "none"
        /\ wret = <<>>
        /\ prevs # <<>>

\* C8, as claimed. Writer drop drains the retirement list: once the Writer is
\* dropped no retired value remains held.
C8_WriterDropDrains ==
    wpc = "dropped" => prevs = <<>>

\* C8, amended. Dropping the Writer frees nothing and waits for nothing while
\* a Reader is alive: the retirement list is freed, with the published value,
\* when Shared is dropped, which is when the Writer and every Reader are
\* gone; until then no value is freed.
C8_SharedDropDrains ==
    /\ torn <=> (wpc = "dropped" /\ LiveReaders = {})
    /\ ~torn => \A v \in Values : freed[v] = 0
    /\ torn => /\ prevs = <<>>
               /\ \A v \in 0..given : handed[v] = 0 => freed[v] = 1

\* The Writer is dropped, a Reader is alive, retired values are still held.
C8_Witness ==
    /\ wpc = "dropped"
    /\ LiveReaders # {}
    /\ prevs # <<>>
    /\ ~torn

\* The loads of epoch counters left in the try_sync pass in progress.
TsLeft ==
    Cardinality({c \in (ti..Len(prevs)) \X (1..MaxReaders) :
                    /\ c[2] <= Len(prevs[c[1]].wits)
                    /\ c[1] = ti => c[2] >= tj})

\* A bound on the Writer's steps left in the call in progress.
Budget ==
    CASE wpc = "ts" /\ wop = "write" /\ wphase = 1 ->
            TsLeft + Pins(prevs) + 2 * MaxReaders + 4
      [] wpc = "ts" /\ ~(wop = "write" /\ wphase = 1) -> TsLeft
      [] wpc = "publish" -> Pins(prevs) + 2 * MaxReaders + 3
      [] wpc = "lock" -> Pins(prevs) + 2 * MaxReaders + 2
      [] wpc = "scan" -> Pins(prevs) + MaxReaders + (Len(slab) + 1 - wk) + 1
      [] OTHER -> 0

C10_Enabled ==
    /\ wpc = "ts" => ENABLED TsWitness /\ lock # "writer"
    /\ wpc = "publish" => ENABLED WnPublish
    /\ wpc = "scan" => ENABLED (WnScan \/ WnUnlock) /\ lock = "writer"
    /\ wpc = "lock" =>
         /\ ENABLED WnLock <=> lock = "free"
         /\ lock # "free" =>
              /\ lock = "reader"
              /\ \E r \in Readers : rpc[r] \in {"new_locked", "drop_locked"}

C10_Step == WriterStep /\ wop # "sync" => Budget' < Budget

CanRead(r) ==
    \/ rpc[r] = "entered"
    \/ rpc[r] = "idle" /\ epoch[r] < MaxEpoch
    \/ rpc[r] = "guard" /\ epoch[r] + 1 < MaxEpoch

\* C3. Liveness of the final value: once the last value, MaxWrites, is
\* published, every Reader that goes on calling read() eventually holds a
\* guard on it.
C3_FinalValueObserved ==
    \A r \in Readers :
        (active = MaxWrites /\ CanRead(r)) ~> (Held(r) /\ rdata[r] = MaxWrites)

\* A Reader that saw an older value in its first read() holds the last value
\* in its second.
C3_Witness ==
    \E r \in Readers :
        /\ Held(r)
        /\ epoch[r] = 3
        /\ rseen[r] < MaxWrites
        /\ rdata[r] = MaxWrites

\* C7, as claimed. Scenario S4: the try_sync() after the second write returns
\* exactly the value 1.
C7_TrySyncReturnsOne ==
    lastOp = "try_sync" /\ wop = "none" => wret = <<1>>

\* C7, amended. Scenario S4: the second write itself returns the value 1 (as
\* the last value of its result, after the value 0 if the first write did not
\* return it) and leaves the retirement list empty, so that the try_sync()
\* after it returns nothing.
C7_SecondWriteReturnsOne ==
    /\ given = 2 /\ lastOp = "write" /\ wop = "none" =>
         /\ wret \in {<<1>>, <<0, 1>>}
         /\ prevs = <<>>
    /\ lastOp = "try_sync" /\ wop = "none" =>
         /\ wret = <<>>
         /\ handed[0] = 1
         /\ handed[1] = 1

\* The scenario has run to its end: the try_sync() has returned.
C7_Witness ==
    /\ lastOp = "try_sync"
    /\ wop = "none"
    /\ given = 2
    /\ epoch[1] = 2

\* The Reader's thread is between calls and may call read().
CanEnter(r) == rpc[r] = "idle" /\ ~Creating(r) /\ epoch[r] < MaxEpoch

C11_Enabled ==
    \A r \in Readers :
        /\ CanEnter(r) => ENABLED ReadEnter(r)
        /\ rpc[r] = "entered" => ENABLED ReadLoad(r)
        /\ rpc[r] = "guard" => ENABLED GuardDrop(r)

C11_Step ==
    \A r \in Readers :
        /\ ReadEnter(r) =>
             /\ rpc'[r] \in {"entered", "panic"}
             /\ rpc'[r] = "entered" <=> ~LowBit(epoch[r])
             /\ lock' = lock
        /\ ReadLoad(r) => rpc'[r] = "guard" /\ lock' = lock
        /\ GuardDrop(r) => rpc'[r] = "idle" /\ lock' = lock

\* C11. The read path is wait-free: a read() is two steps of its Reader (the
\* epoch load and store, then the load of `active`; the first ends the call
\* if the assertion fails) and a ReadGuard drop is one; none of them takes or
\* releases the registry lock, and each is enabled in every state its Reader
\* is at it, whatever the Writer and the other Readers are doing, the
\* Writer's scan under the registry lock included.
C11_WaitFreeRead == []C11_Enabled /\ [][C11_Step]_vars

\* A Reader holds a guard from a read() made entirely while the Writer held
\* the registry lock: the scan has passed its counter and found it even.
C11_Witness ==
    \E r \in Readers :
        /\ Held(r)
        /\ wpc = "scan"
        /\ lock = "writer"
        /\ rkey[r] < wk
        /\ \A k \in 1..Len(wrem) : wrem[k].r # r

\* Some witness in the retirement list still holds its Reader's epoch.
PinnedNow ==
    \E k \in 1..Len(prevs) : \E j \in 1..Len(prevs[k].wits) :
        epoch[prevs[k].wits[j].r] = prevs[k].wits[j].snap

C12_Step ==
    /\ (wop = "sync" \/ SyncCall) /\ wop' = "none" =>
         /\ lastOp' = "sync"
         /\ prevs' = <<>>
    /\ wop = "sync" /\ PinnedNow /\ epoch' = epoch =>
         /\ wop' = "sync"
         /\ PinnedNow'

\* C12. sync() returns only with the retirement list empty; and while the
\* list keeps a witness whose Reader's epoch still equals the sample and does
\* not change (a leaked ReadGuard), no step ends the sync() in progress or
\* removes such a witness.
C12_SyncReturnsEmpty == [][C12_Step]_vars

\* sync() has collected a value and is in a later pass, held up by the
\* witness of a Reader whose ReadGuard was leaked.
C12_Witness ==
    /\ wop = "sync"
    /\ wr # <<>>
    /\ \E r \in Readers :
          /\ rpc[r] = "idle"
          /\ Inside(r)
          /\ \E k \in 1..Len(prevs) :
                [snap |-> epoch[r], r |-> r] \in Range(prevs[k].wits)

\* The values the call in progress has taken out of the retirement list, or,
\* between calls, those the last call returned.
Out == IF wop = "none" THEN wret ELSE wr \o tv

C13_Scanning ==
    wpc = "scan" =>
        /\ lock = "writer"
        /\ active = given
        /\ wprev # active
        /\ \A k \in 1..Len(wrem) :
              /\ LowBit(wrem[k].snap)
              /\ Registered(wrem[k].r)
              /\ rkey[wrem[k].r] < wk
              /\ wrem[k].snap <= epoch[wrem[k].r]
              /\ \A j \in 1..Len(wrem) : wrem[j].r = wrem[k].r => j = k

C13_Step ==
    /\ wpc \in {"publish", "lock", "scan"} /\ ~WnUnlock => prevs' = prevs
    /\ WnScan =>
         LET e == slab[wk] IN
         wrem' = IF e.occ /\ LowBit(epoch[e.r])
                 THEN Append(wrem, [snap |-> epoch[e.r], r |-> e.r])
                 ELSE wrem
    /\ WnUnlock =>
         LET e == [val |-> wprev, wits |-> wrem]
             P == Append(prevs, e)
         IN IF wop = "write_nosync"
            THEN prevs' = P /\ wop' = "none" /\ wret' = <<>>
            ELSE \* write(): its second try_sync() has begun on P
                 /\ Len(Out') + Len(prevs') = Len(wr) + Len(P)
                 /\ \A k \in 1..Len(prevs') : prevs'[k] \in Range(P)
                 /\ \A x \in Range(P) :
                       x \notin Range(prevs') =>
                           x.wits = <<>> /\ x.val \in Range(Out')

\* C13. Retire step: from its store to `active` to its push, write_nosync
\* leaves the retirement list as it is; the scan runs with the registry lock
\* held and the new value already published; each turn of the scan adds a
\* witness (the value read, the counter) iff the entry is occupied and the
\* value read is odd; and the push appends exactly one entry, the superseded
\* value with those witnesses, removing nothing (in write(), the try_sync()
\* that follows takes out only entries without witnesses).
C13_RetireStep == []C13_Scanning /\ [][C13_Step]_vars

\* write_nosync has returned twice: two entries are in the list, and of the
\* two registered Readers the scan of the second witnessed one.
C13_Witness ==
    /\ lastOp = "write_nosync"
    /\ wop = "none"
    /\ Len(prevs) = 2
    /\ Len(prevs[2].wits) = 1
    /\ \A r \in Readers : Registered(r)

C14_Pass ==
    /\ wpc = "ts" =>
         /\ ti \in 1..Len(prevs)
         /\ tj \in 1..Len(prevs[ti].wits)
         /\ \A k \in 1..(ti - 1) : prevs[k].wits # <<>>
    /\ wop = "none" /\ lastOp \in {"try_sync", "write", "sync"} =>
         \A k \in 1..Len(prevs) : prevs[k].wits # <<>>

C14_Step ==
    /\ TsWitness =>
         LET e == prevs[ti]
             w == e.wits[tj]
             rest == RemoveAt(e.wits, tj)
         IN /\ Len(Out') + Len(prevs') = Len(Out) + Len(prevs)
            /\ Range(Out') \cup {prevs'[k].val : k \in 1..Len(prevs')}
                 = Range(Out) \cup PrevVals
            /\ \A k \in 1..(ti - 1) : prevs'[k] = prevs[k]
            /\ IF epoch[w.r] = w.snap
               THEN prevs'[ti] = e
               ELSE IF rest # <<>>
               THEN prevs'[ti] = [val |-> e.val, wits |-> rest]
               ELSE /\ e.val \in Range(Out')
                    /\ \A k \in 1..Len(prevs') : prevs'[k].val # e.val
    /\ (TrySyncCall \/ (wop = "try_sync" /\ ti = 1 /\ tj = 1 /\ TsWitness))
         /\ ~PinnedNow =>
         IF wop' = "none"
         THEN /\ wret' = tv \o Vals(prevs)
              /\ ~has_old_values'
         ELSE /\ ti' = 1
              /\ tj' = 1
              /\ tv' \o Vals(prevs') = tv \o Vals(prevs)

\* C14. try_sync() is one complete pass: the entries before the one under
\* examination all have witnesses left (none was skipped), and once a pass
\* is over so has every entry of the list; the witness examined is kept iff
\* its Reader's epoch equals the sample, and its entry is removed, its value
\* going to the result, iff that leaves it no witness; no other entry before
\* it changes and no value is lost or duplicated.  Consequently a try_sync()
\* called when no witness of the list holds its Reader's current epoch stays
\* at the head of the list, drops a witness with every epoch it loads, and
\* returns every retired value, in order; has_old_values() is then false.
C14_TrySyncPass == []C14_Pass /\ [][C14_Step]_vars

\* A try_sync() called with every witness stale has removed an entry and is
\* examining the one that took its place.
C14_Witness ==
    /\ wop = "try_sync"
    /\ wpc = "ts"
    /\ tv # <<>>
    /\ ti = 1
    /\ tj = 1
    /\ ~PinnedNow

\* read() has stored the epoch and its guard, if built, is not yet dropped.
InRead(r) == rpc[r] \in {"entered", "guard"}

C15_Odd == \A r \in Readers : InRead(r) => LowBit(epoch[r])

C15_Step ==
    \A r \in Readers :
        /\ ReadEnter(r) /\ InRead(r)' =>
             epoch'[r] = epoch[r] + 1 /\ LowBit(epoch'[r])
        /\ InRead(r) /\ InRead(r)' => epoch'[r] = epoch[r]
        /\ InRead(r) /\ epoch'[r] # epoch[r] => GuardDrop(r)

\* C15. Guard/epoch invariant: from the store of read() on, and while the
\* ReadGuard exists, the Reader's epoch counter is odd; it is the value that
\* store wrote, for no step of any thread changes it until the step that
\* drops the guard.
C15_GuardEpoch == []C15_Odd /\ [][C15_Step]_vars

\* A guard taken on the initial value is still held after the Writer has
\* published twice and the other Reader has been through a read().
C15_Witness ==
    /\ Held(1)
    /\ epoch[1] = 1
    /\ rdata[1] = 0
    /\ active = 2
    /\ wop = "none"
    /\ \E r \in Readers : r # 1 /\ epoch[r] >= 2

C16_Fresh ==
    \A r \in Readers : rpc[r] \in {"none", "new_locked"} => epoch[r] = 0

C16_Step ==
    \A r \in Readers :
        /\ NewInsert(r) => epoch'[r] = 0
        /\ epoch'[r] # epoch[r] =>
             /\ epoch'[r] = epoch[r] + 1
             /\ IF LowBit(epoch[r]) THEN GuardDrop(r) ELSE ReadEnter(r)
        /\ GuardDrop(r) => epoch'[r] = epoch[r] + 1 /\ ~LowBit(epoch'[r])

\* C16. Epoch sequence: a Reader's counter is 0 until the Reader is
\* registered; every change of it is a step of its own Reader and adds
\* exactly 1: read() takes an even value to the next odd one, the guard's
\* drop takes an odd value to the next even one, so that the counter only
\* grows and a read() with its guard's drop adds 2.
C16_EpochSequence == []C16_Fresh /\ [][C16_Step]_vars

\* A cloned Reader has been through two read()s with their guards dropped.
C16_Witness ==
    \E r \in Readers : r # 1 /\ rpc[r] = "idle" /\ epoch[r] = 4

C17_Alive ==
    /\ \A r \in Readers : Registered(r) <=> Constructed(r)
    /\ \A k \in 1..Len(prevs) : \A j \in 1..Len(prevs[k].wits) :
          LET w == prevs[k].wits[j] IN
          /\ rpc[w.r] \notin {"none", "new_locked"}
          /\ LowBit(w.snap)
          /\ w.snap <= epoch[w.r]
          /\ EpochRefs(w.r) >= 1
          /\ InRead(w.r) /\ epoch[w.r] = w.snap => Registered(w.r)

C17_Step ==
    WnUnlock =>
        \A k \in 1..Len(wrem) :
            Constructed(wrem[k].r) /\ Registered(wrem[k].r)

Entries(r) == {k \in 1..Len(slab) : slab[k].occ /\ slab[k].r = r}

C18_Registry ==
    /\ \A r \in Readers :
          /\ Constructed(r) => Entries(r) = {rkey[r]}
          /\ ~Constructed(r) => Entries(r) = {}
          /\ rpc[r] \in {"none", "new_locked"} => epoch[r] = 0
    /\ \A r, q \in Readers :
          Constructed(r) /\ Constructed(q) /\ r # q => rkey[r] # rkey[q]

C18_Step ==
    \A r \in Readers :
        /\ NewInsert(r) =>
             /\ epoch'[r] = 0
             /\ Entries(r)' = {rkey'[r]}
             /\ \A q \in Readers \ {r} : Entries(q)' = Entries(q)
        /\ DropRemove(r) =>
             /\ Entries(r)' = {}
             /\ \A q \in Readers \ {r} : Entries(q)' = Entries(q)

\* C18. Registry invariant: a Reader that exists (from its construction to
\* the removal in its Drop) has exactly one registry entry, at its
\* epoch_index, which no other such Reader has; a Reader not yet constructed
\* or already dropped has none, so that every read() is made by a registered
\* Reader; a Reader is registered with its epoch counter at 0; constructing
\* and dropping a Reader change no other Reader's entry.
C18_RegistryInvariant == []C18_Registry /\ [][C18_Step]_vars

\* The first Reader was dropped and a Reader made by Writer::reader() holds a
\* guard, registered under the key the first one had.
C18_Witness ==
    /\ rpc[1] = "dropped"
    /\ \E r \in Readers : r # 1 /\ Held(r) /\ rkey[r] = rkey[1]

Count(q, v) == Cardinality({k \in 1..Len(q) : q[k] = v})

\* The places v is in: published, in the retirement list, handed back (in
\* the Vec a call is filling or has returned to its caller).
Places(v) ==
    (IF active = v THEN 1 ELSE 0)
    + Count(Vals(prevs), v)
    + Count(tv, v) + Count(wr, v) + handed[v]

\* C19, as claimed. Ownership partition: while the slot exists, each value
\* published so far is in exactly one of three places: published, in the
\* retirement list, or handed back.
C19_ThreePlaces ==
    ~torn => \A v \in 0..active : Places(v) = 1

C19_Partition ==
    \A v \in 0..active :
        /\ ~torn => Places(v) + (IF Retiring(v) THEN 1 ELSE 0) = 1
        /\ ~torn => freed[v] = 0
        /\ torn => handed[v] + freed[v] = 1

C19_Step ==
    \A k \in 1..Len(prevs) :
        LET e == prevs[k] IN
        (\A j \in 1..Len(prevs') : prevs'[j].val # e.val) =>
            \/ torn'
            \/ /\ wpc' \in {"ts", "idle", "publish"}
               /\ e.val \in Range(Out')
               /\ \/ e.wits = <<>>
                  \/ /\ TsWitness
                     /\ k = ti
                     /\ Len(e.wits) = 1
                     /\ epoch[e.wits[1].r] # e.wits[1].snap

\* C19, amended. Ownership partition: while the slot exists, each value
\* published so far is in exactly one of four places: published, held as
\* `prev` by the write_nosync in progress (between its store and its push),
\* in the retirement list (once), or handed back; none is freed.  A value
\* leaves the retirement list only in a step of try_sync that puts it in the
\* result, its witness list being empty or losing its last witness in that
\* step, or when Shared is dropped and frees what the list still holds.
C19_OwnershipPartition == []C19_Partition /\ [][C19_Step]_vars

\* One value is published, one is in the retirement list and one has been
\* returned to the caller.
C19_Witness ==
    /\ wop = "none"
    /\ ~torn
    /\ active = 2
    /\ Count(Vals(prevs), 1) = 1
    /\ handed[0] = 1

C20_Step ==
    TsWitness =>
        LET e == prevs[ti]
            w == e.wits[tj]
        IN /\ Len(e.wits) = 1 /\ epoch[w.r] # w.snap =>
                /\ e.val \in Range(Out')
                /\ \A j \in 1..Len(prevs') : prevs'[j].val # e.val
           /\ \A k \in 1..Len(prevs) :
                (\E j \in 1..Len(prevs[k].wits) :
                    epoch[prevs[k].wits[j].r] = prevs[k].wits[j].snap)
                => prevs[k].val \in {prevs'[j].val : j \in 1..Len(prevs')}

\* C20. Per-retiree witnessing: a pinned entry does not block the others.
\* The entry whose last witness try_sync() finds stale is removed and its
\* value put in the result in that step, whatever the other entries' witness
\* lists are; the entries with a witness that still holds its Reader's epoch
\* stay in the list.
C20_PinnedDoesNotBlock == [][C20_Step]_vars

\* try_sync() has returned the older retired value, 0; the younger one, 1,
\* remains in the list, pinned by a Reader inside a critical section.
C20_Witness ==
    /\ lastOp = "try_sync"
    /\ wop = "none"
    /\ wret = <<0>>
    /\ Len(prevs) = 1
    /\ prevs[1].val = 1
    /\ \E r \in Readers :
          /\ Held(r)
          /\ prevs[1].wits = <<[snap |-> epoch[r], r |-> r]>>

\* No Reader has been dropped with its epoch odd (its guard leaked).
NoOddDrop == \A r \in Readers : rpc[r] = "dropped" => ~Inside(r)

\* C21. Pinning is monotone in retirement order: provided no Reader was
\* dropped while its epoch was odd, a witness that still holds its Reader's
\* current epoch is also, with the same sample, in every entry retired later;
\* and a Reader holding a guard has such a witness in the entry of the value
\* it borrows and of every value retired after it.
C21_PinningMonotone ==
    NoOddDrop =>
        /\ \A k \in 1..Len(prevs) : \A j \in 1..Len(prevs[k].wits) :
              LET w == prevs[k].wits[j] IN
              epoch[w.r] = w.snap =>
                  \A m \in (k + 1)..Len(prevs) : w \in Range(prevs[m].wits)
        /\ \A r \in Readers : Held(r) =>
              \A k \in 1..Len(prevs) :
                  prevs[k].val >= rdata[r] =>
                      [snap |-> epoch[r], r |-> r] \in Range(prevs[k].wits)

\* A Reader holds a guard on the initial value; both retired values are in
\* the list, each with its witness, after a try_sync() that returned nothing.
C21_Witness ==
    /\ NoOddDrop
    /\ lastOp = "try_sync"
    /\ wop = "none"
    /\ Len(prevs) = 2
    /\ \E r \in Readers :
          /\ Held(r)
          /\ rdata[r] = 0
          /\ \A k \in 1..2 :
                [snap |-> epoch[r], r |-> r] \in Range(prevs[k].wits)

\* C22, as claimed. The enter assertion never fails: no call of read() finds
\* its Reader's epoch with the low bit set, a leaked ReadGuard included.
C22_EnterAssertionHolds ==
    \A r \in Readers : rpc[r] # "panic"

\* A Reader leaked the guard of its first read() and called read() again:
\* the assertion found the epoch odd, while the value the leaked guard
\* borrowed is still pinned in the retirement list.
C22_Witness ==
    \E r \in Readers :
        /\ rpc[r] = "panic"
        /\ epoch[r] = 1
        /\ \E k \in 1..Len(prevs) :
              /\ prevs[k].val = rseen[r]
              /\ [snap |-> 1, r |-> r] \in Range(prevs[k].wits)

\* The value r's guard borrows has been taken out of the retirement list for
\* the caller, returned to the caller, or freed.
Dangling(r) ==
    /\ Held(r)
    /\ \/ rdata[r] \in Range(tv) \cup Range(wr)
       \/ handed[rdata[r]] > 0
       \/ freed[rdata[r]] > 0

\* C23. The two orderings are what safety rests on: a guard whose read()
\* made its epoch store before its load of `active`, on a value that was
\* retired by a write_nosync whose store preceded its scan (or that is not
\* retired), never borrows a value the Writer has handed back or freed,
\* whatever was reordered for other reads and other retirements.
C23_FencesRequired ==
    \A r \in Readers :
        Held(r) /\ r \notin unfenced.rd /\ rdata[r] \notin unfenced.wr
            => ~Dangling(r)

\* Both failures at once.  One Reader's read() loaded `active` before its
\* epoch store, and the value it borrows, retired in order, has been returned
\* to the caller; another Reader's read() was in order, and the value it
\* borrows, retired by a write_nosync that scanned before its store, has been
\* returned to the caller too.
C23_Witness ==
    \E r, q \in Readers :
        /\ Held(r) /\ Held(q)
        /\ r \in unfenced.rd
        /\ rdata[r] \notin unfenced.wr
        /\ handed[rdata[r]] = 1
        /\ q \notin unfenced.rd
        /\ rdata[q] \in unfenced.wr
        /\ handed[rdata[q]] = 1

====
